---- MODULE Spec2Model ----
(***************************************************************************)
(* Model of the metarelay daemon: the supervisor loop of Daemon.run, the   *)
(* paginated catch-up, the common event-handling path, the SQLite event    *)
(* store, the handler registry and the Supabase cloud client, as far as    *)
(* the supervisor consumes them.                                           *)
(***************************************************************************)
EXTENDS Integers, Sequences, FiniteSets, TLC

\* ------------------------------------------------------------------ bounds
MaxEvents == 2          \* upstream rows inserted during one behaviour
FetchLimit == 1         \* page size of catch-up (limit=100 in the code), scaled
MaxCycles == 2          \* supervisor cycles explored together with events
MaxLongCycles == 9      \* supervisor cycles explored without events
MaxFileLines == 2       \* lines of one events.jsonl up to which live events arrive
MaxLiveEvents == 1      \* upstream rows where run() is explored under fairness

\* -------------------------------------------------------- program constants
INITIAL_BACKOFF == 1
MAX_BACKOFF == 60

\* ------------------------------------------------------------ configuration
\* config.repo_names: the watched repositories, in configuration order
repo_names == <<"r1", "r2">>

Repos == {repo_names[i] : i \in 1..Len(repo_names)}

\* Shapes of upstream rows: event_type, action and payload.conclusion
EventShapes ==
  { [event_type |-> "check_run", action |-> "completed", conclusion |-> "failure"],
    [event_type |-> "check_run", action |-> "completed", conclusion |-> "success"] }

\* The registered handlers, in registration order.  A filter is the parsed
\* form of "FIELD OP 'VALUE'".
Handlers ==
  << [name |-> "h1", event_type |-> "check_run", action |-> "completed",
      enabled |-> TRUE,
      filters |-> << [field |-> "payload.conclusion", op |-> "==", value |-> "failure"] >>],
     [name |-> "h2", event_type |-> "check_run", action |-> "completed",
      enabled |-> TRUE,
      filters |-> << [field |-> "payload.conclusion", op |-> "!=", value |-> "success"] >>],
     [name |-> "h3", event_type |-> "check_run", action |-> "completed",
      enabled |-> FALSE, filters |-> << >>] >>

\* HandlerResultStatus values a dispatch can return
ResultStatuses == {"success", "failure"}

\* What one dispatch call does: return a result with a status, or raise
DispatchOutcomes == ResultStatuses \cup {"raise"}

DaemonStatus ==
  {"starting", "catching_up", "live", "reconnecting", "shutting_down", "stopped", "error"}

\* Status strings the subscription reports
ChannelStatuses == {"SUBSCRIBED", "CHANNEL_ERROR", "TIMED_OUT", "CLOSED"}

VARIABLES
  pc,               \* position of Daemon.run
  status,           \* Daemon._status
  shutdown_event,   \* Daemon._shutdown_event is set
  connection_lost,  \* Daemon._connection_lost is set
  backoff,          \* local backoff of run()
  exc,              \* exception in flight in run() ("none" when there is none)
  client,           \* SupabaseCloudClient._client is not None
  channel,          \* SupabaseCloudClient._channel is not None
  upstream,         \* rows of the cloud events table; the id is the index
  cursor,           \* table cursor: repo -> last_event_id
  event_log,        \* table event_log: remote_id -> row
  event_file,       \* events.jsonl per repo: sequence of event ids
  cu_i,             \* _catch_up: index of the repo being caught up
  after_id,         \* _catch_up: after_id
  page,             \* _catch_up: events (the page being iterated)
  idx,              \* _catch_up: position in the page
  cycles,           \* number of cycles started by run()
  \* observations (history)
  prevStatus,       \* status before the last status assignment
  lastCall,         \* last of connect()/disconnect() called on the cloud client
  lastOp,           \* the last run of the event-handling path, if it was the last step
  dispatchReturns,  \* <<id, handler index>> -> number of results dispatch returned
  cuLast,           \* last id passed to the handling path in this repo's catch-up loop
  prevSleep,        \* duration of the previous backoff sleep (0: none yet)
  sleepsSinceReset, \* backoff sleeps since run() started or the backoff was reset
  lbrRun,           \* consecutive cycles that lost the subscription before subscribe() returned
  cycleClean,       \* subscribe() of this cycle returned with connection_lost unset
  syncCalls,        \* run_sync: number of connect(), _catch_up() and disconnect() calls it made
  unit              \* a component called on its own: the call, its arguments and what it returned

supVars == <<pc, status, shutdown_event, connection_lost, backoff, exc, cycles>>
cloudVars == <<client, channel, upstream>>
storeVars == <<cursor, event_log, event_file>>
cuVars == <<cu_i, after_id, page, idx>>
obsStore == <<dispatchReturns>>
obsBackoff == <<prevSleep, sleepsSinceReset, lbrRun, cycleClean>>
vars == <<supVars, cloudVars, storeVars, cuVars, prevStatus, lastCall, lastOp,
          obsStore, cuLast, obsBackoff, syncCalls, unit>>

Ids == 1..MaxEvents
HandlerIdx == 1..Len(Handlers)
NoOp == [id |-> 0, outcome |-> "none", path |-> "none", calls |-> 0, results |-> << >>]

Min(a, b) == IF a < b THEN a ELSE b

\* ------------------------------------------------------------- event store
\* SqliteEventStore.has_event
has_event(remote_id) == remote_id \in DOMAIN event_log

\* SqliteEventStore.get_cursor: the row, or <<>> for None
get_cursor(repo) ==
  IF repo \in DOMAIN cursor
    THEN <<[repo |-> repo, last_event_id |-> cursor[repo]]>>
    ELSE << >>

\* an update without its WHERE clause: every row gets the id
set_cursor_every_row(cur, repo, last_event_id) ==
  [r \in DOMAIN cur \cup {repo} |-> last_event_id]

\* SqliteEventStore.set_cursor: upsert on the primary key repo
set_cursor(cur, repo, last_event_id) ==
  [r \in DOMAIN cur \cup {repo} |-> IF r = repo THEN last_event_id ELSE cur[r]]

\* a log_event that replaces the row of a logged event
log_event_replace(log, id, event, handler_name, result_status) ==
  [n \in DOMAIN log \cup {id} |->
     IF n = id
       THEN [repo |-> event.repo, event_type |-> event.event_type,
             action |-> event.action, handler_name |-> handler_name,
             handler_result |-> result_status]
       ELSE log[n]]

\* a log_event whose insert is lost
log_event_lost(log, id, event, handler_name, result_status) == log

\* SqliteEventStore.log_event: insert, a duplicate remote_id is ignored
log_event(log, id, event, handler_name, result_status) ==
  IF id \in DOMAIN log
    THEN log
    ELSE [n \in DOMAIN log \cup {id} |->
            IF n = id
              THEN [repo |-> event.repo, event_type |-> event.event_type,
                    action |-> event.action, handler_name |-> handler_name,
                    handler_result |-> result_status]
              ELSE log[n]]

\* --------------------------------------------------------- handler registry
\* _resolve_field: the value of a dotted path, "None" when it has none
ResolveField(field_path, event) ==
  CASE field_path = "payload.conclusion" -> event.conclusion
    [] field_path = "repo" -> event.repo
    [] field_path = "event_type" -> event.event_type
    [] field_path = "action" -> event.action
    [] OTHER -> "None"

\* _evaluate_filters: every filter must pass; an expression that does not
\* parse (here: an operator other than == and !=) makes the list fail
EvaluateFilters(filters, event) ==
  \A k \in 1..Len(filters) :
    LET actual == ResolveField(filters[k].field, event) IN
      /\ filters[k].op \in {"==", "!="}
      /\ (filters[k].op = "==" => actual = filters[k].value)
      /\ (filters[k].op = "!=" => actual # filters[k].value)

\* a match that does not look at enabled
HandlerMatchesDisabledToo(h, event) ==
  /\ h.event_type = event.event_type
  /\ h.action = event.action
  /\ EvaluateFilters(h.filters, event)

HandlerMatches(h, event) ==
  /\ h.enabled
  /\ h.event_type = event.event_type
  /\ h.action = event.action
  /\ EvaluateFilters(h.filters, event)

\* the loop of HandlerRegistry.match over the registered handlers hs, from
\* the k-th on
RECURSIVE MatchFrom(_, _, _)
MatchFrom(hs, k, event) ==
  IF k > Len(hs) THEN << >>
  ELSE IF HandlerMatches(hs[k], event)
         THEN <<k>> \o MatchFrom(hs, k + 1, event)
         ELSE MatchFrom(hs, k + 1, event)

\* HandlerRegistry.match: indices of the matching handlers, registration order
Match(event) == MatchFrom(Handlers, 1, event)


\* -------------------------------------------------------------- cloud client
\* _row_to_event: the Event built from the upstream row with this id
EventOf(id) ==
  [id |-> id, repo |-> upstream[id].repo, event_type |-> upstream[id].event_type,
   action |-> upstream[id].action, conclusion |-> upstream[id].conclusion]

\* a query with id >= after_id in place of id > after_id
FetchEventsSinceInclusive(repo, after, limit) ==
  LET all == SelectSeq([i \in 1..Len(upstream) |-> i],
                       LAMBDA i : upstream[i].repo = repo /\ i >= after)
  IN SubSeq(all, 1, Min(limit, Len(all)))

\* SupabaseCloudClient.fetch_events_since: ids of the rows of the repo with
\* id > after_id, ascending by id, at most limit of them
FetchEventsSince(repo, after, limit) ==
  LET all == SelectSeq([i \in 1..Len(upstream) |-> i],
                       LAMBDA i : upstream[i].repo = repo /\ i > after)
  IN SubSeq(all, 1, Min(limit, Len(all)))

\* ------------------------------------------------------ event-handling path
\* a dedup gate that never skips
IsDuplicateNever(id) == FALSE

\* Daemon._handle_event, the dedup gate: skip the event when it is logged
IsDuplicate(id) == has_event(id)

\* a loop over the matches that a non-success result ends as well
FirstRaiseOrFailure(outs) ==
  IF \E k \in 1..Len(outs) : outs[k] # "success"
    THEN CHOOSE k \in 1..Len(outs) :
           outs[k] # "success" /\ \A j \in 1..(k - 1) : outs[j] = "success"
    ELSE Len(outs) + 1

\* number of handlers called before and including the first raising dispatch
\* (Len(outs) + 1 when no dispatch raises)
FirstRaise(outs) ==
  IF \E k \in 1..Len(outs) : outs[k] = "raise"
    THEN CHOOSE k \in 1..Len(outs) :
           outs[k] = "raise" /\ \A j \in 1..(k - 1) : outs[j] # "raise"
    ELSE Len(outs) + 1

\* the results the dispatch calls of one run returned, in call order
Returned(outs) == SelectSeq(outs, LAMBDA o : o # "raise")

\* the loop over the matching handlers: log_event after each dispatch that
\* returned, up to the first one that raises
RECURSIVE LogResults(_, _, _, _, _)
LogResults(log, id, hs, outs, k) ==
  IF k > Len(hs) \/ outs[k] = "raise" THEN log
  ELSE LogResults(log_event(log, id, EventOf(id), Handlers[hs[k]].name, outs[k]),
                  id, hs, outs, k + 1)

\* Daemon._handle_event for the event with this id.  fileOk: the append to
\* events.jsonl succeeds; outs[k]: what dispatch does for the k-th match.
HandleOutcome(id, fileOk, outs) ==
  IF IsDuplicate(id) THEN "dup"
  ELSE IF ~fileOk THEN "file_error"
  ELSE IF FirstRaise(outs) <= Len(outs) THEN "dispatch_error"
  ELSE "ok"

\* a handling path without its last statement
CursorAdvancesNever(out) == FALSE

\* a cursor that a skipped duplicate sets as well
CursorAdvancesOnDuplicate(out) == out \in {"ok", "dup"}

\* a cursor that is set although a dispatch raised
CursorAdvancesAfterRaise(out) == out \in {"ok", "dispatch_error"}

\* _handle_event reaches its last statement, set_cursor, only when nothing
\* raised and the event was not skipped
CursorAdvances(out) == out = "ok"

\* Daemon._handle_event as one step, from the dedup gate to set_cursor
HandleEvent(id, path, fileOk, outs) ==
  LET e == EventOf(id)
      hs == Match(e)
      fr == FirstRaise(outs)
      out == HandleOutcome(id, fileOk, outs)
      ran == out \in {"ok", "dispatch_error"}
      returned(h) == ran /\ \E k \in 1..(fr - 1) : hs[k] = h
  IN /\ event_file' = IF ran
                        THEN [event_file EXCEPT ![e.repo] = Append(@, id)]
                        ELSE event_file
     /\ dispatchReturns' = [p \in DOMAIN dispatchReturns |->
                              IF p[1] = id /\ returned(p[2])
                                THEN dispatchReturns[p] + 1 ELSE dispatchReturns[p]]
     /\ event_log' = IF ran THEN LogResults(event_log, id, hs, outs, 1) ELSE event_log
     /\ cursor' = IF CursorAdvances(out) THEN set_cursor(cursor, e.repo, id) ELSE cursor
     /\ lastOp' = [id |-> id, outcome |-> out, path |-> path,
                    calls |-> IF ran THEN Min(fr, Len(hs)) ELSE 0,
                    results |-> IF ran THEN Returned(outs) ELSE << >>]

\* what the dispatch calls for the matches of an event can do, one entry per
\* match; the entries after a raising dispatch stand for calls never made
OutcomeChoices(id) ==
  LET hs == Match(EventOf(id)) IN
    { outs \in [1..Len(hs) -> DispatchOutcomes] :
        \A k \in 1..Len(hs) :
          (k > 1 /\ outs[k - 1] = "raise") => outs[k] = "raise" }

\* the inputs of one run of the handling path that lead to different runs:
\* a duplicate is skipped before any of them is used, and a failed append
\* ends the run before any dispatch
HandleChoices(id) ==
  LET none == [k \in 1..Len(Match(EventOf(id))) |-> "raise"] IN
    IF IsDuplicate(id) THEN {<<TRUE, none>>}
    ELSE {<<FALSE, none>>} \cup {<<TRUE, outs>> : outs \in OutcomeChoices(id)}

\* --------------------------------------------------- steps of the supervisor
\* an after_id that stays where the repo's loop started
AdvanceAfterIdStale(prev, id) == prev

\* _catch_up: "after_id = event.id" after each handled event
AdvanceAfterId(prev, id) == id

\* a catch-up that starts every repo from the beginning
FirstAfterIdZero(repo) == 0

\* _catch_up: "after_id = cursor.last_event_id if cursor else 0"
FirstAfterId(repo) ==
  IF get_cursor(repo) # << >> THEN get_cursor(repo)[1].last_event_id ELSE 0

\* a doubling without the cap
BackoffAfterSleepUncapped(b) == b * 2

\* run(): "backoff = min(backoff * 2, _MAX_BACKOFF)" after the sleep
BackoffAfterSleep(b) == Min(b * 2, MAX_BACKOFF)

\* a reset that does not look at connection_lost
BackoffAfterSubscribeAlways(lost, b) == INITIAL_BACKOFF

\* run(): "if not connection_lost.is_set(): backoff = _INITIAL_BACKOFF"
BackoffAfterSubscribe(lost, b) == IF ~lost THEN INITIAL_BACKOFF ELSE b

\* ------------------------------------------------------------ initial state
\* the daemon before run() or run_sync() is called, with an empty store
DaemonInit ==
  /\ pc = "idle"
  /\ status = "stopped"
  /\ shutdown_event = FALSE
  /\ connection_lost = FALSE
  /\ backoff = INITIAL_BACKOFF
  /\ exc = "none"
  /\ client = FALSE
  /\ channel = FALSE
  /\ upstream = << >>
  /\ cursor = << >>
  /\ event_log = << >>
  /\ event_file = [r \in Repos |-> << >>]
  /\ cu_i = 1
  /\ after_id = 0
  /\ page = << >>
  /\ idx = 1
  /\ cycles = 0
  /\ prevStatus = "stopped"
  /\ lastCall = "none"
  /\ lastOp = NoOp
  /\ dispatchReturns = [p \in Ids \X HandlerIdx |-> 0]
  /\ cuLast = 0
  /\ prevSleep = 0
  /\ sleepsSinceReset = 0
  /\ lbrRun = 0
  /\ cycleClean = FALSE
  /\ syncCalls = [connect |-> 0, catch_up |-> 0, disconnect |-> 0]

\* no component is called on its own
NoUnit == [op |-> "none"]

Init ==
  /\ DaemonInit
  /\ unit = NoUnit

\* positions at which run() is suspended and callbacks can run
AwaitPcs == {"connect", "fetch", "subscribing", "wait", "disconnect", "sleep", "cleanup"}

\* positions at which the channel delivers rows; a row arriving while run()
\* awaits disconnect() is handled as one arriving at the end of the wait
LivePcs == {"subscribing", "wait"}

\* positions at which an upstream insert is observably different
InsertPcs == {"idle", "fetch", "wait", "sleep"}

\* the event-handling path did not run in this step
NoHandling ==
  /\ lastOp' = NoOp
  /\ UNCHANGED <<storeVars, obsStore>>

\* the locals of _catch_up no longer exist once it has returned or raised
CatchUpLeft ==
  /\ cu_i' = 1
  /\ after_id' = 0
  /\ page' = << >>
  /\ idx' = 1
  /\ cuLast' = 0

\* assignment to Daemon._status
SetStatus(s) ==
  /\ status' = s
  /\ prevStatus' = status

KeepStatus == UNCHANGED <<status, prevStatus>>

\* ------------------------------------------------------------- Daemon.run
\* run(): create the events, status STARTING, install the signal handlers
RunStart ==
  /\ pc = "idle"
  /\ shutdown_event' = FALSE
  /\ connection_lost' = FALSE
  /\ SetStatus("starting")
  /\ backoff' = INITIAL_BACKOFF
  /\ pc' = "loop"
  /\ NoHandling
  /\ UNCHANGED <<syncCalls, unit, exc, cycles, cloudVars, cuVars, lastCall, cuLast, obsBackoff>>

\* a while loop that does not test the shutdown event
LoopCheckIgnoresShutdown(cap) ==
  /\ pc = "loop"
  /\ cycles < cap
  /\ connection_lost' = FALSE
  /\ cycles' = cycles + 1
  /\ cycleClean' = FALSE
  /\ pc' = "connect"
  /\ KeepStatus
  /\ NoHandling
  /\ UNCHANGED <<syncCalls, unit, shutdown_event, backoff, exc, cloudVars, cuVars, lastCall, cuLast,
                 prevSleep, sleepsSinceReset, lbrRun>>

\* while not shutdown: clear connection_lost and call connect()
LoopCheck(cap) ==
  /\ pc = "loop"
  /\ IF shutdown_event
       THEN /\ pc' = "finally"
            /\ UNCHANGED <<connection_lost, cycles, cycleClean>>
       ELSE /\ cycles < cap
            /\ connection_lost' = FALSE
            /\ cycles' = cycles + 1
            /\ cycleClean' = FALSE
            /\ pc' = "connect"
  /\ KeepStatus
  /\ NoHandling
  /\ UNCHANGED <<syncCalls, unit, shutdown_event, backoff, exc, cloudVars, cuVars, lastCall, cuLast,
                 prevSleep, sleepsSinceReset, lbrRun>>

\* a connect() followed at once by the subscription
ConnectOkSkipCatchUp ==
  /\ pc = "connect"
  /\ client' = TRUE
  /\ lastCall' = "connect"
  /\ SetStatus("live")
  /\ cu_i' = 1
  /\ pc' = "subscribe"
  /\ NoHandling
  /\ UNCHANGED <<syncCalls, unit, shutdown_event, connection_lost, backoff, exc, cycles, channel,
                 upstream, after_id, page, idx, cuLast, obsBackoff>>

\* connect() returns; status CATCHING_UP; _catch_up starts with the first repo
ConnectOk ==
  /\ pc = "connect"
  /\ client' = TRUE
  /\ lastCall' = "connect"
  /\ SetStatus("catching_up")
  /\ cu_i' = 1
  /\ pc' = "catch_up"
  /\ NoHandling
  /\ UNCHANGED <<syncCalls, unit, shutdown_event, connection_lost, backoff, exc, cycles, channel,
                 upstream, after_id, page, idx, cuLast, obsBackoff>>

\* connect() raises ConnectionError
ConnectFail ==
  /\ pc = "connect"
  /\ lastCall' = "connect"
  /\ exc' = "ConnectionError"
  /\ pc' = "except"
  /\ KeepStatus
  /\ NoHandling
  /\ UNCHANGED <<syncCalls, unit, shutdown_event, connection_lost, backoff, cycles, cloudVars, cuVars,
                 cuLast, obsBackoff>>

\* _catch_up: next repo of the for loop: read its cursor, call the first fetch
CatchUpRepo ==
  /\ pc = "catch_up"
  /\ cu_i <= Len(repo_names)
  /\ after_id' = FirstAfterId(repo_names[cu_i])
  /\ cuLast' = 0
  /\ pc' = "fetch"
  /\ KeepStatus
  /\ NoHandling
  /\ UNCHANGED <<syncCalls, unit, shutdown_event, connection_lost, backoff, exc, cycles, cloudVars,
                 cu_i, page, idx, lastCall, obsBackoff>>

\* fetch_events_since returns a page: empty ends the repo's loop
FetchReturn ==
  /\ pc = "fetch"
  /\ client
  /\ LET events == FetchEventsSince(repo_names[cu_i], after_id, FetchLimit) IN
       /\ page' = events
       /\ idx' = 1
       /\ pc' = IF events = << >> THEN "repo_done" ELSE "handling"
  /\ KeepStatus
  /\ NoHandling
  /\ UNCHANGED <<syncCalls, unit, shutdown_event, connection_lost, backoff, exc, cycles, cloudVars,
                 cu_i, after_id, lastCall, cuLast, obsBackoff>>

\* fetch_events_since raises ConnectionError
FetchFail ==
  /\ pc = "fetch"
  /\ exc' = "ConnectionError"
  /\ pc' = "except"
  /\ CatchUpLeft
  /\ KeepStatus
  /\ NoHandling
  /\ UNCHANGED <<syncCalls, unit, shutdown_event, connection_lost, backoff, cycles, cloudVars,
                 lastCall, obsBackoff>>

\* the body of "for event in events": handle the event, advance after_id;
\* an exception of the handling path leaves _catch_up
CatchUpHandle ==
  /\ pc = "handling"
  /\ \E ch \in HandleChoices(page[idx]) :
       LET out == HandleOutcome(page[idx], ch[1], ch[2]) IN
         /\ HandleEvent(page[idx], "catch_up", ch[1], ch[2])
         /\ IF out \in {"file_error", "dispatch_error"}
              THEN /\ exc' = IF out = "file_error" THEN "OSError" ELSE "DispatchError"
                   /\ pc' = "except"
                   /\ CatchUpLeft
              ELSE /\ after_id' = AdvanceAfterId(after_id, page[idx])
                   /\ cuLast' = page[idx]
                   /\ idx' = idx + 1
                   /\ pc' = IF idx = Len(page) THEN "fetch" ELSE "handling"
                   /\ exc' = exc
                   /\ UNCHANGED <<cu_i, page>>
  /\ KeepStatus
  /\ UNCHANGED <<syncCalls, unit, shutdown_event, connection_lost, backoff, cycles, cloudVars,
                 lastCall, obsBackoff>>

\* the repo's while loop was left by break: continue with the next repo
CatchUpNextRepo ==
  /\ pc = "repo_done"
  /\ cu_i' = cu_i + 1
  /\ pc' = "catch_up"
  /\ KeepStatus
  /\ NoHandling
  /\ UNCHANGED <<syncCalls, unit, shutdown_event, connection_lost, backoff, exc, cycles, cloudVars,
                 after_id, page, idx, lastCall, cuLast, obsBackoff>>

\* _catch_up returned: status LIVE, subscribe() is called
CatchUpDone ==
  /\ pc = "catch_up"
  /\ cu_i > Len(repo_names)
  /\ CatchUpLeft
  /\ SetStatus("live")
  /\ pc' = "subscribe"
  /\ NoHandling
  /\ UNCHANGED <<syncCalls, unit, shutdown_event, connection_lost, backoff, exc, cycles, cloudVars,
                 lastCall, obsBackoff>>

\* subscribe(): the channel is created and the subscription requested
SubscribeBegin ==
  /\ pc = "subscribe"
  /\ client
  /\ channel' = TRUE
  /\ pc' = "subscribing"
  /\ KeepStatus
  /\ NoHandling
  /\ UNCHANGED <<syncCalls, unit, shutdown_event, connection_lost, backoff, exc, cycles, client,
                 upstream, cuVars, lastCall, cuLast, obsBackoff>>

\* subscribe() returns
SubscribeReturn ==
  /\ pc = "subscribing"
  /\ pc' = "after_subscribe"
  /\ KeepStatus
  /\ NoHandling
  /\ UNCHANGED <<syncCalls, unit, shutdown_event, connection_lost, backoff, exc, cycles, cloudVars,
                 cuVars, lastCall, cuLast, obsBackoff>>

\* subscribe() raises ConnectionError
SubscribeFail ==
  /\ pc = "subscribing"
  /\ exc' = "ConnectionError"
  /\ pc' = "except"
  /\ KeepStatus
  /\ NoHandling
  /\ UNCHANGED <<syncCalls, unit, shutdown_event, connection_lost, backoff, cycles, cloudVars, cuVars,
                 lastCall, cuLast, obsBackoff>>

\* "if not connection_lost.is_set(): backoff = _INITIAL_BACKOFF", then the
\* wait for shutdown or connection loss starts
AfterSubscribe ==
  /\ pc = "after_subscribe"
  /\ backoff' = BackoffAfterSubscribe(connection_lost, backoff)
  /\ IF ~connection_lost
       THEN /\ cycleClean' = TRUE
            /\ sleepsSinceReset' = 0
            /\ lbrRun' = 0
       ELSE /\ cycleClean' = FALSE
            /\ lbrRun' = lbrRun + 1
            /\ UNCHANGED sleepsSinceReset
  /\ pc' = "wait"
  /\ KeepStatus
  /\ NoHandling
  /\ UNCHANGED <<syncCalls, unit, shutdown_event, connection_lost, exc, cycles, cloudVars, cuVars,
                 lastCall, cuLast, prevSleep>>

\* a race in which the connection loss is looked at first
WaitReturnLostFirst ==
  /\ pc = "wait"
  /\ shutdown_event \/ connection_lost
  /\ IF ~connection_lost
       THEN /\ pc' = "finally"
            /\ KeepStatus
       ELSE /\ SetStatus("reconnecting")
            /\ pc' = "disconnect"
  /\ NoHandling
  /\ UNCHANGED <<syncCalls, unit, shutdown_event, connection_lost, backoff, exc, cycles, cloudVars,
                 cuVars, lastCall, cuLast, obsBackoff>>

\* a wait that only the connection-lost event ends
WaitReturnLostOnly ==
  /\ pc = "wait"
  /\ connection_lost
  /\ IF shutdown_event
       THEN /\ pc' = "finally"
            /\ KeepStatus
       ELSE /\ SetStatus("reconnecting")
            /\ pc' = "disconnect"
  /\ NoHandling
  /\ UNCHANGED <<syncCalls, unit, shutdown_event, connection_lost, backoff, exc, cycles, cloudVars,
                 cuVars, lastCall, cuLast, obsBackoff>>

\* asyncio.wait returned: leave the loop on shutdown, otherwise status
\* RECONNECTING and disconnect() is called
WaitReturn ==
  /\ pc = "wait"
  /\ shutdown_event \/ connection_lost
  /\ IF shutdown_event
       THEN /\ pc' = "finally"
            /\ KeepStatus
       ELSE /\ SetStatus("reconnecting")
            /\ pc' = "disconnect"
  /\ NoHandling
  /\ UNCHANGED <<syncCalls, unit, shutdown_event, connection_lost, backoff, exc, cycles, cloudVars,
                 cuVars, lastCall, cuLast, obsBackoff>>

\* a reconnect path that goes to the backoff sleep without disconnect()
DisconnectReturnNoCall ==
  /\ pc = "disconnect"
  /\ pc' = "sleep"
  /\ KeepStatus
  /\ NoHandling
  /\ UNCHANGED <<syncCalls, unit, shutdown_event, connection_lost, backoff, exc, cycles, client,
                 channel, lastCall, upstream, cuVars, cuLast, obsBackoff>>

\* disconnect() of the reconnect path returns; the backoff sleep starts
DisconnectReturn ==
  /\ pc = "disconnect"
  /\ channel' = FALSE
  /\ lastCall' = "disconnect"
  /\ pc' = "sleep"
  /\ KeepStatus
  /\ NoHandling
  /\ UNCHANGED <<syncCalls, unit, shutdown_event, connection_lost, backoff, exc, cycles, client,
                 upstream, cuVars, cuLast, obsBackoff>>

\* asyncio.sleep(backoff) returns; backoff = min(backoff * 2, _MAX_BACKOFF)
SleepReturn ==
  /\ pc = "sleep"
  /\ backoff' = BackoffAfterSleep(backoff)
  /\ prevSleep' = backoff
  /\ sleepsSinceReset' = sleepsSinceReset + 1
  /\ pc' = "loop"
  /\ KeepStatus
  /\ NoHandling
  /\ UNCHANGED <<syncCalls, unit, shutdown_event, connection_lost, exc, cycles, cloudVars, cuVars,
                 lastCall, cuLast, lbrRun, cycleClean>>

\* an except clause that marks the daemon stopped
ExceptHandlerStopped ==
  /\ pc = "except"
  /\ SetStatus("stopped")
  /\ pc' = "finally"
  /\ NoHandling
  /\ UNCHANGED <<syncCalls, unit, shutdown_event, connection_lost, backoff, exc, cycles, cloudVars,
                 cuVars, lastCall, cuLast, obsBackoff>>

\* except Exception: status ERROR, the exception is re-raised
ExceptHandler ==
  /\ pc = "except"
  /\ SetStatus("error")
  /\ pc' = "finally"
  /\ NoHandling
  /\ UNCHANGED <<syncCalls, unit, shutdown_event, connection_lost, backoff, exc, cycles, cloudVars,
                 cuVars, lastCall, cuLast, obsBackoff>>

\* finally: status SHUTTING_DOWN, disconnect() is called
FinallyEnter ==
  /\ pc = "finally"
  /\ SetStatus("shutting_down")
  /\ pc' = "cleanup"
  /\ NoHandling
  /\ UNCHANGED <<syncCalls, unit, shutdown_event, connection_lost, backoff, exc, cycles, cloudVars,
                 cuVars, lastCall, cuLast, obsBackoff>>

\* a finally block that does not call disconnect()
CleanupNoDisconnect ==
  /\ pc = "cleanup"
  /\ SetStatus("stopped")
  /\ pc' = "done"
  /\ NoHandling
  /\ UNCHANGED <<syncCalls, unit, shutdown_event, connection_lost, backoff, exc, cycles, cloudVars,
                 cuVars, lastCall, cuLast, obsBackoff>>

\* disconnect() of the finally block returns; status STOPPED; run() ends
CleanupReturn ==
  /\ pc = "cleanup"
  /\ channel' = FALSE
  /\ lastCall' = "disconnect"
  /\ SetStatus("stopped")
  /\ pc' = "done"
  /\ NoHandling
  /\ UNCHANGED <<syncCalls, unit, shutdown_event, connection_lost, backoff, exc, cycles, client,
                 upstream, cuVars, cuLast, obsBackoff>>

\* ------------------------------------------------------------- environment
\* Daemon._request_shutdown, run by the signal handler
RequestShutdown ==
  /\ pc \in AwaitPcs
  /\ ~shutdown_event
  /\ shutdown_event' = TRUE
  /\ KeepStatus
  /\ NoHandling
  /\ UNCHANGED <<syncCalls, unit, pc, connection_lost, backoff, exc, cycles, cloudVars, cuVars,
                 lastCall, cuLast, obsBackoff>>

\* a status callback that takes every status for a loss
OnSubscriptionStatusAny(s) ==
  /\ pc \in AwaitPcs
  /\ channel
  /\ connection_lost' = TRUE
  /\ KeepStatus
  /\ NoHandling
  /\ UNCHANGED <<syncCalls, unit, pc, shutdown_event, backoff, exc, cycles, client, channel, upstream,
                 cuVars, lastCall, cuLast, obsBackoff>>

\* Daemon._on_subscription_status(s, error), called by the channel
OnSubscriptionStatus(s) ==
  /\ pc \in AwaitPcs
  /\ channel
  /\ connection_lost' = IF s = "CHANNEL_ERROR" \/ s = "TIMED_OUT"
                          THEN TRUE ELSE connection_lost
  /\ KeepStatus
  /\ NoHandling
  /\ UNCHANGED <<syncCalls, unit, pc, shutdown_event, backoff, exc, cycles, client, channel, upstream,
                 cuVars, lastCall, cuLast, obsBackoff>>

\* the channel's on_event callback for an inserted row of a subscribed repo:
\* _handle_event is called, an exception of it is logged and dropped
LiveDeliver(id) ==
  /\ pc \in LivePcs
  /\ channel
  /\ id \in 1..Len(upstream)
  /\ upstream[id].repo \in Repos
  /\ IsDuplicate(id) \/ Len(event_file[upstream[id].repo]) < MaxFileLines
  /\ \E ch \in HandleChoices(id) : HandleEvent(id, "live", ch[1], ch[2])
  /\ KeepStatus
  /\ UNCHANGED <<syncCalls, unit, supVars, cloudVars, cuVars, lastCall, cuLast, obsBackoff>>

\* a webhook row is inserted into the cloud events table, which holds fewer
\* than cap rows
InsertRow(cap, r, shape) ==
  /\ pc \in InsertPcs
  /\ Len(upstream) < cap
  /\ upstream' = Append(upstream, [repo |-> r, event_type |-> shape.event_type,
                                   action |-> shape.action,
                                   conclusion |-> shape.conclusion])
  /\ KeepStatus
  /\ NoHandling
  /\ UNCHANGED <<syncCalls, unit, supVars, client, channel, cuVars, lastCall, cuLast,
                 obsBackoff>>

UpstreamInsert(r, shape) == InsertRow(MaxEvents, r, shape)

Supervisor(cap) ==
  \/ RunStart
  \/ LoopCheck(cap)
  \/ ConnectOk
  \/ ConnectFail
  \/ CatchUpRepo
  \/ FetchReturn
  \/ FetchFail
  \/ CatchUpNextRepo
  \/ CatchUpDone
  \/ SubscribeBegin
  \/ SubscribeReturn
  \/ SubscribeFail
  \/ AfterSubscribe
  \/ WaitReturn
  \/ DisconnectReturn
  \/ SleepReturn
  \/ ExceptHandler
  \/ FinallyEnter
  \/ CleanupReturn
  \/ RequestShutdown
  \/ \E s \in ChannelStatuses : OnSubscriptionStatus(s)

Next ==
  \/ Supervisor(MaxCycles)
  \/ CatchUpHandle
  \/ \E id \in Ids : LiveDeliver(id)
  \/ \E r \in Repos : \E shape \in EventShapes : UpstreamInsert(r, shape)

Spec == Init /\ [][Next]_vars

\* the supervisor alone, with no upstream events, over many cycles
NextLong == Supervisor(MaxLongCycles)

SpecLong == Init /\ [][NextLong]_vars

\* --------------------------------------------- failing event-store operations
\* Daemon._handle_event in which an event-store operation raises.  at = 0:
\* has_event raises; at = k within the matches: the log_event after the k-th
\* dispatch raises; at = number of matches + 1: set_cursor raises.  outs[j] is
\* the result of the j-th dispatch, which returned.
HandleEventStoreError(id, path, at, outs) ==
  LET e == EventOf(id)
      hs == Match(e)
      called == Min(at, Len(hs))
  IN /\ at \in 0..(Len(hs) + 1)
     /\ at > 0 => ~IsDuplicate(id)
     /\ event_file' = IF at > 0
                        THEN [event_file EXCEPT ![e.repo] = Append(@, id)]
                        ELSE event_file
     /\ dispatchReturns' = [p \in DOMAIN dispatchReturns |->
                              IF p[1] = id /\ \E k \in 1..called : hs[k] = p[2]
                                THEN dispatchReturns[p] + 1 ELSE dispatchReturns[p]]
     /\ event_log' = IF at > 1
                       THEN LogResults(event_log, id, SubSeq(hs, 1, at - 1), outs, 1)
                       ELSE event_log
     /\ cursor' = cursor
     /\ lastOp' = [id |-> id, outcome |-> "store_error", path |-> path,
                    calls |-> called, results |-> SubSeq(outs, 1, called)]

\* the results of the dispatch calls made before the store operation raises
StoreErrorChoices(id, at) ==
  LET hs == Match(EventOf(id)) IN
    { outs \in [1..Len(hs) -> DispatchOutcomes] :
        \A k \in 1..Len(hs) : (outs[k] = "raise") <=> (k > at) }

\* _catch_up: get_cursor raises for the next repo
CatchUpRepoStoreError ==
  /\ pc = "catch_up"
  /\ cu_i <= Len(repo_names)
  /\ exc' = "EventStoreError"
  /\ pc' = "except"
  /\ CatchUpLeft
  /\ KeepStatus
  /\ NoHandling
  /\ UNCHANGED <<syncCalls, unit, shutdown_event, connection_lost, backoff, cycles, cloudVars,
                 lastCall, obsBackoff>>

\* _catch_up: a store operation raises inside _handle_event and leaves _catch_up
CatchUpHandleStoreError ==
  /\ pc = "handling"
  /\ \E at \in 0..(Len(Handlers) + 1) :
       \E outs \in StoreErrorChoices(page[idx], at) :
         HandleEventStoreError(page[idx], "catch_up", at, outs)
  /\ exc' = "EventStoreError"
  /\ pc' = "except"
  /\ CatchUpLeft
  /\ KeepStatus
  /\ UNCHANGED <<syncCalls, unit, shutdown_event, connection_lost, backoff, cycles, cloudVars,
                 lastCall, obsBackoff>>

\* on_event: a store operation raises inside _handle_event; the exception is
\* logged and dropped by on_event
LiveDeliverStoreError(id) ==
  /\ pc \in LivePcs
  /\ channel
  /\ id \in 1..Len(upstream)
  /\ upstream[id].repo \in Repos
  /\ \E at \in 0..(Len(Handlers) + 1) :
       /\ at > 0 => Len(event_file[upstream[id].repo]) < MaxFileLines
       /\ \E outs \in StoreErrorChoices(id, at) :
            HandleEventStoreError(id, "live", at, outs)
  /\ KeepStatus
  /\ UNCHANGED <<syncCalls, unit, supVars, cloudVars, cuVars, lastCall, cuLast, obsBackoff>>

\* the daemon with an event store whose operations can fail
NextStore ==
  \/ Next
  \/ CatchUpRepoStoreError
  \/ CatchUpHandleStoreError
  \/ \E id \in Ids : LiveDeliverStoreError(id)

SpecStore == Init /\ [][NextStore]_vars

\* ------------------------------------------------------------------ run_sync
\* the event-handling path does not run in this step of run_sync, and the
\* state of Daemon.run, which is not running, stays as it is
SyncKeeps ==
  /\ NoHandling
  /\ UNCHANGED <<shutdown_event, connection_lost, backoff, cycles, upstream, obsBackoff>>
  /\ UNCHANGED unit

\* run_sync: Daemon(container), status CATCHING_UP, connect() is called
SyncStart ==
  /\ pc = "idle"
  /\ SetStatus("catching_up")
  /\ syncCalls' = [syncCalls EXCEPT !.connect = @ + 1]
  /\ pc' = "sync_connect"
  /\ SyncKeeps
  /\ UNCHANGED <<exc, client, channel, cuVars, lastCall, cuLast>>

\* connect() returns; _catch_up() is called inside the try block
SyncConnectOk ==
  /\ pc = "sync_connect"
  /\ client' = TRUE
  /\ lastCall' = "connect"
  /\ syncCalls' = [syncCalls EXCEPT !.catch_up = @ + 1]
  /\ cu_i' = 1
  /\ pc' = "catch_up"
  /\ KeepStatus
  /\ SyncKeeps
  /\ UNCHANGED <<exc, channel, after_id, page, idx, cuLast>>

\* connect() raises ConnectionError, outside the try block: run_sync raises
SyncConnectFail ==
  /\ pc = "sync_connect"
  /\ lastCall' = "connect"
  /\ exc' = "ConnectionError"
  /\ pc' = "done"
  /\ KeepStatus
  /\ SyncKeeps
  /\ UNCHANGED <<syncCalls, client, channel, cuVars, cuLast>>

\* a run_sync without the finally block
SyncCatchUpExitNoFinally ==
  /\ \/ pc = "catch_up" /\ cu_i > Len(repo_names)
     \/ pc = "except"
  /\ IF pc = "except"
       THEN /\ pc' = "done"
            /\ UNCHANGED syncCalls
       ELSE /\ pc' = "sync_disconnect"
            /\ syncCalls' = [syncCalls EXCEPT !.disconnect = @ + 1]
  /\ CatchUpLeft
  /\ KeepStatus
  /\ SyncKeeps
  /\ UNCHANGED <<exc, client, channel, lastCall>>

\* _catch_up() returned or raised: the finally block calls disconnect()
SyncCatchUpExit ==
  /\ \/ pc = "catch_up" /\ cu_i > Len(repo_names)
     \/ pc = "except"
  /\ syncCalls' = [syncCalls EXCEPT !.disconnect = @ + 1]
  /\ pc' = "sync_disconnect"
  /\ CatchUpLeft
  /\ KeepStatus
  /\ SyncKeeps
  /\ UNCHANGED <<exc, client, channel, lastCall>>

\* disconnect() returns; status STOPPED; run_sync returns or raises
SyncDisconnectReturn ==
  /\ pc = "sync_disconnect"
  /\ channel' = FALSE
  /\ lastCall' = "disconnect"
  /\ SetStatus("stopped")
  /\ pc' = "done"
  /\ SyncKeeps
  /\ UNCHANGED <<syncCalls, exc, client, cuVars, cuLast>>

NextSync ==
  \/ SyncStart
  \/ SyncConnectOk
  \/ SyncConnectFail
  \/ CatchUpRepo
  \/ FetchReturn
  \/ FetchFail
  \/ CatchUpHandle
  \/ CatchUpNextRepo
  \/ SyncCatchUpExit
  \/ SyncDisconnectReturn
  \/ \E r \in Repos : \E shape \in EventShapes : UpstreamInsert(r, shape)

SpecSync == Init /\ [][NextSync]_vars

\* the steps of the task running Daemon.run (the callbacks and the upstream
\* are the environment)
RunStep ==
  \/ RunStart
  \/ LoopCheck(MaxCycles)
  \/ ConnectOk
  \/ ConnectFail
  \/ CatchUpRepo
  \/ FetchReturn
  \/ FetchFail
  \/ CatchUpHandle
  \/ CatchUpNextRepo
  \/ CatchUpDone
  \/ SubscribeBegin
  \/ SubscribeReturn
  \/ SubscribeFail
  \/ AfterSubscribe
  \/ WaitReturn
  \/ DisconnectReturn
  \/ SleepReturn
  \/ ExceptHandler
  \/ FinallyEnter
  \/ CleanupReturn

\* the daemon with fewer upstream rows
NextLive ==
  \/ Supervisor(MaxCycles)
  \/ CatchUpHandle
  \/ \E id \in Ids : LiveDeliver(id)
  \/ \E r \in Repos : \E shape \in EventShapes : InsertRow(MaxLiveEvents, r, shape)

\* every awaited call of run() completes and the event loop resumes the task
SpecLive == Init /\ [][NextLive]_vars /\ WF_vars(RunStep)

\* ------------------------------------------- the event store called directly
\* Events and results passed to log_event
StoreEvents ==
  { [id |-> i, repo |-> r, event_type |-> "check_run", action |-> "completed",
     conclusion |-> "failure"] : i \in Ids, r \in Repos }

StoreResults ==
  { [handler_name |-> "h1", status |-> "success"],
    [handler_name |-> "h2", status |-> "failure"] }

\* the store after construction: the connection is open, no transaction is
\* pending; lastSet and closedSince are history (the value of the last
\* set_cursor that returned, per repo; the repos for which close() was called
\* since)
StoreUnit ==
  [op |-> "init", arg |-> "none", ret |-> "none", conn |-> TRUE, txn |-> << >>,
   lastSet |-> << >>, closedSince |-> {}]

\* the cursor table as the connection sees it: the file and the rows written
\* in the pending transaction
Visible(cur, txn) ==
  [r \in DOMAIN cur \cup DOMAIN txn |-> IF r \in DOMAIN txn THEN txn[r] ELSE cur[r]]

\* the daemon is not running while the store is called directly
StoreFrozen ==
  UNCHANGED <<supVars, cloudVars, event_file, cuVars, prevStatus, lastCall, lastOp,
              obsStore, cuLast, obsBackoff, syncCalls>>

\* a set_cursor that returns without commit
StoreSetCursorNoCommit(repo, n) ==
  /\ cursor' = cursor
  /\ unit' = [unit EXCEPT !.op = "set_cursor", !.arg = repo, !.ret = "ok",
                          !.conn = TRUE,
                          !.txn = set_cursor(unit.txn, repo, n),
                          !.lastSet = set_cursor(unit.lastSet, repo, n),
                          !.closedSince = @ \ {repo}]
  /\ event_log' = event_log
  /\ StoreFrozen

\* SqliteEventStore.set_cursor: the upsert is executed and committed
StoreSetCursor(repo, n) ==
  /\ cursor' = Visible(cursor, set_cursor(unit.txn, repo, n))
  /\ unit' = [unit EXCEPT !.op = "set_cursor", !.arg = repo, !.ret = "ok",
                          !.conn = TRUE,
                          !.txn = << >>,
                          !.lastSet = set_cursor(unit.lastSet, repo, n),
                          !.closedSince = @ \ {repo}]
  /\ event_log' = event_log
  /\ StoreFrozen

\* SqliteEventStore.log_event: insert and commit; on a duplicate remote_id
\* the IntegrityError is dropped and nothing is committed
StoreLogEvent(event, result) ==
  /\ event_log' = log_event(event_log, event.id, event, result.handler_name,
                            result.status)
  /\ IF event.id \in DOMAIN event_log
       THEN /\ cursor' = cursor
            /\ unit' = [unit EXCEPT !.op = "log_event", !.arg = event.id,
                                    !.ret = result.handler_name, !.conn = TRUE]
       ELSE /\ cursor' = Visible(cursor, unit.txn)
            /\ unit' = [unit EXCEPT !.op = "log_event", !.arg = event.id,
                                    !.ret = result.handler_name, !.conn = TRUE,
                                    !.txn = << >>]
  /\ StoreFrozen

\* SqliteEventStore.get_cursor: the row the connection sees, <<>> for None
StoreGetCursor(repo) ==
  /\ unit' = [unit EXCEPT !.op = "get_cursor", !.arg = repo, !.conn = TRUE,
                          !.ret = IF repo \in DOMAIN Visible(cursor, unit.txn)
                                    THEN <<[repo |-> repo,
                                            last_event_id |->
                                              Visible(cursor, unit.txn)[repo]]>>
                                    ELSE << >>]
  /\ UNCHANGED <<cursor, event_log>>
  /\ StoreFrozen

\* SqliteEventStore.close (or the end of the process): the connection is
\* closed, what was not committed is gone; the next call opens a new one
StoreClose ==
  /\ unit' = [unit EXCEPT !.op = "close", !.arg = "none", !.ret = "none",
                          !.conn = FALSE, !.txn = << >>,
                          !.closedSince = DOMAIN unit.lastSet]
  /\ UNCHANGED <<cursor, event_log>>
  /\ StoreFrozen

InitEventStore ==
  /\ DaemonInit
  /\ unit = StoreUnit

NextEventStore ==
  \/ \E repo \in Repos : \E n \in Ids : StoreSetCursor(repo, n)
  \/ \E event \in StoreEvents : \E result \in StoreResults : StoreLogEvent(event, result)
  \/ \E repo \in Repos : StoreGetCursor(repo)
  \/ StoreClose

SpecEventStore == InitEventStore /\ [][NextEventStore]_vars

\* ---------------------------------------- the handler registry called directly
\* a registry with further handlers: filters on a top-level attribute, two
\* filters, an expression that does not parse, another event type, a filter
\* on a payload field that no event has
RegistryHandlers ==
  Handlers \o
  << [name |-> "h4", event_type |-> "check_run", action |-> "completed",
      enabled |-> TRUE,
      filters |-> << [field |-> "repo", op |-> "==", value |-> "r1"] >>],
     [name |-> "h5", event_type |-> "check_run", action |-> "completed",
      enabled |-> TRUE,
      filters |-> << [field |-> "payload.conclusion", op |-> "==", value |-> "failure"],
                     [field |-> "repo", op |-> "!=", value |-> "r1"] >>],
     [name |-> "h6", event_type |-> "check_run", action |-> "completed",
      enabled |-> TRUE,
      filters |-> << [field |-> "payload.conclusion", op |-> "=", value |-> "failure"] >>],
     [name |-> "h7", event_type |-> "workflow_run", action |-> "requested",
      enabled |-> TRUE, filters |-> << >>],
     [name |-> "h8", event_type |-> "check_run", action |-> "completed",
      enabled |-> TRUE,
      filters |-> << [field |-> "payload.missing", op |-> "==", value |-> "None"] >>] >>

\* the events match is called with; conclusion "None": the payload has none
RegistryEvents ==
  { [id |-> i, repo |-> r, event_type |-> t, action |-> a, conclusion |-> c] :
      i \in Ids, r \in Repos, t \in {"check_run", "workflow_run"},
      a \in {"completed", "requested"},
      c \in {"failure", "success", "neutral", "None"} }

\* everything but the component called on its own
daemonVars ==
  <<supVars, cloudVars, storeVars, cuVars, prevStatus, lastCall, lastOp,
    obsStore, cuLast, obsBackoff, syncCalls>>

InitRegistry ==
  /\ DaemonInit
  /\ unit \in { [op |-> "match", event |-> e, done |-> FALSE, ret |-> << >>] :
                   e \in RegistryEvents }

\* registry.match(event) is called and returns
RegistryMatch ==
  /\ unit.op = "match"
  /\ ~unit.done
  /\ unit' = [unit EXCEPT !.done = TRUE,
                          !.ret = MatchFrom(RegistryHandlers, 1, unit.event)]
  /\ UNCHANGED daemonVars

NextRegistry == RegistryMatch

SpecRegistry == InitRegistry /\ [][NextRegistry]_vars

\* ------------------------------------------- the dispatcher called directly
\* what subprocess.run does: the command exits with a code (negative: killed
\* by a signal), runs into the handler's timeout, or cannot be executed
ExitCodes == {0, 1, 2, 127, 0 - 9}

ProcessOutcomes ==
  { [kind |-> "exit", code |-> c] : c \in ExitCodes } \cup
  { [kind |-> "timeout", code |-> 0], [kind |-> "oserror", code |-> 0] }

\* a status that takes a signal's negative code for success
DispatchStatusSigned(returncode) ==
  IF returncode <= 0 THEN "success" ELSE "failure"

\* status of a command that ran to its end
DispatchStatus(returncode) ==
  IF returncode = 0 THEN "success" ELSE "failure"

\* the output attribute, by what it is made of (None: "none")
DispatchOutput(out, err) ==
  IF out /\ err THEN "stdout+stderr"
  ELSE IF err THEN "stderr"
  ELSE IF out THEN "stdout"
  ELSE "none"

\* AgentDispatcher.dispatch: template says whether resolve_template raises,
\* proc what the subprocess does, out and err whether it wrote to stdout and
\* stderr. exit_code is << >> for None; duration says whether
\* duration_seconds is passed to HandlerResult ("set") or left at its
\* default None ("none").
Dispatch(h, template, proc, out, err) ==
  IF template = "raise"
    THEN [kind |-> "result", handler_name |-> h, status |-> "error",
          exit_code |-> << >>, output |-> "template", duration |-> "none"]
  ELSE IF proc.kind = "exit"
    THEN [kind |-> "result", handler_name |-> h,
          status |-> DispatchStatus(proc.code),
          exit_code |-> <<proc.code>>, output |-> DispatchOutput(out, err),
          duration |-> "set"]
  ELSE IF proc.kind = "timeout"
    THEN [kind |-> "result", handler_name |-> h, status |-> "timeout",
          exit_code |-> << >>, output |-> "timed out", duration |-> "set"]
  ELSE [kind |-> "raise", handler_name |-> h, status |-> "DispatchError",
        exit_code |-> << >>, output |-> "none", duration |-> "none"]

InitDispatch ==
  /\ DaemonInit
  /\ unit \in { [op |-> "dispatch", handler |-> h, template |-> t, proc |-> p,
                  out |-> o, err |-> e, done |-> FALSE, ret |-> << >>] :
                   h \in {"h1", "h2"}, t \in {"ok", "raise"},
                   p \in ProcessOutcomes, o \in BOOLEAN, e \in BOOLEAN }

\* dispatcher.dispatch(handler, event) is called and returns or raises
DispatchCall ==
  /\ unit.op = "dispatch"
  /\ ~unit.done
  /\ unit' = [unit EXCEPT !.done = TRUE,
                          !.ret = Dispatch(unit.handler, unit.template, unit.proc,
                                           unit.out, unit.err)]
  /\ UNCHANGED daemonVars

NextDispatch == DispatchCall

SpecDispatch == InitDispatch /\ [][NextDispatch]_vars

\* ----------------------------------------- the cloud client called directly
\* the payloads the Realtime channel hands to on_event: wrapper says under
\* which key the row comes ("empty": under none, or an empty row), id whether
\* the row's id is an integer, missing or of a type Event rejects, repo the
\* row's repo or "missing", event_type whether the row has one
EmptyPayload ==
  [wrapper |-> "empty", id |-> "missing", repo |-> "missing", event_type |-> "missing"]

PushPayloads ==
  {EmptyPayload} \cup
  { [wrapper |-> w, id |-> i, repo |-> r, event_type |-> t] :
      w \in {"record", "new"}, i \in {"int", "missing", "bad"},
      r \in Repos \cup {"other", "missing"}, t \in {"present", "missing"} }

\* _row_to_event: row["id"], row["repo"] and row["event_type"] raise KeyError
\* when missing, Event(...) raises a validation error for a wrong type
RowToEvent(row) ==
  IF row.id = "int" /\ row.repo # "missing" /\ row.event_type = "present"
    THEN "event" ELSE "raise"

\* on_event without its try block
OnEventUnguarded(payload, repo_set, cb) ==
  IF payload.wrapper = "empty" THEN [calls |-> 0, raised |-> FALSE]
  ELSE IF payload.repo \notin repo_set THEN [calls |-> 0, raised |-> FALSE]
  ELSE IF RowToEvent(payload) = "raise" THEN [calls |-> 0, raised |-> TRUE]
  ELSE [calls |-> 1, raised |-> cb = "raise"]

\* subscribe.on_event: how often callback is called and whether an
\* exception leaves on_event; cb says whether callback raises
OnEvent(payload, repo_set, cb) ==
  IF payload.wrapper = "empty" THEN [calls |-> 0, raised |-> FALSE]
  ELSE IF payload.repo \notin repo_set THEN [calls |-> 0, raised |-> FALSE]
  ELSE IF RowToEvent(payload) = "raise" THEN [calls |-> 0, raised |-> FALSE]
  ELSE [calls |-> 1, raised |-> FALSE]

\* connected: connect() has returned and disconnect() was not called since;
\* repo_set: the repos of the last subscribe() that returned
CloudUnit ==
  [op |-> "init", ret |-> "none", connected |-> FALSE, repo_set |-> {},
   arg |-> EmptyPayload, calls |-> 0, raised |-> FALSE]

CloudFrozen ==
  UNCHANGED <<supVars, upstream, storeVars, cuVars, prevStatus, lastCall,
              lastOp, obsStore, cuLast, obsBackoff, syncCalls>>

CloudReturn(op, ret) ==
  [unit EXCEPT !.op = op, !.ret = ret, !.arg = EmptyPayload, !.calls = 0,
               !.raised = FALSE]

InitCloud == DaemonInit /\ unit = CloudUnit

\* connect(): acreate_client returns a client or raises
CloudConnect(ok) ==
  /\ IF ok
       THEN /\ client' = TRUE
            /\ unit' = [CloudReturn("connect", "ok") EXCEPT !.connected = TRUE]
       ELSE /\ client' = client
            /\ unit' = CloudReturn("connect", "ConnectionError")
  /\ channel' = channel
  /\ CloudFrozen

\* disconnect(): unsubscribes the channel, if any
CloudDisconnect ==
  /\ channel' = FALSE
  /\ client' = client
  /\ unit' = [CloudReturn("disconnect", "ok") EXCEPT !.connected = FALSE,
                                                       !.repo_set = {}]
  /\ CloudFrozen

\* fetch_events_since(): the query returns or raises
CloudFetch(ok) ==
  /\ unit' = CloudReturn("fetch", IF client /\ ok THEN "ok" ELSE "ConnectionError")
  /\ UNCHANGED <<client, channel>>
  /\ CloudFrozen

\* subscribe(): at: "none" it returns, "channel" realtime.channel raises,
\* "subscribe" a later call raises, the channel already stored
CloudSubscribe(repos, at) ==
  /\ IF ~client
       THEN /\ unit' = CloudReturn("subscribe", "ConnectionError")
            /\ channel' = channel
       ELSE /\ channel' = IF at = "channel" THEN channel ELSE TRUE
            /\ unit' = IF at = "none"
                         THEN [CloudReturn("subscribe", "ok") EXCEPT !.repo_set = repos]
                         ELSE CloudReturn("subscribe", "ConnectionError")
  /\ client' = client
  /\ CloudFrozen

\* the channel calls on_event(payload)
CloudPush(payload, cb) ==
  /\ channel
  /\ unit.repo_set # {}
  /\ LET r == OnEvent(payload, unit.repo_set, cb) IN
       unit' = [unit EXCEPT !.op = "push", !.ret = "ok", !.arg = payload,
                            !.calls = r.calls, !.raised = r.raised]
  /\ UNCHANGED <<client, channel>>
  /\ CloudFrozen

NextCloud ==
  \/ \E ok \in BOOLEAN : CloudConnect(ok)
  \/ CloudDisconnect
  \/ \E ok \in BOOLEAN : CloudFetch(ok)
  \/ \E repos \in {{"r1"}, Repos} :
       \E at \in {"none", "channel", "subscribe"} : CloudSubscribe(repos, at)
  \/ \E payload \in PushPayloads : \E cb \in {"ok", "raise"} : CloudPush(payload, cb)

SpecCloud == InitCloud /\ [][NextCloud]_vars

\* --------------------------- the daemon with a channel that pushes inserts
\* The Realtime channel pushes a row only when the row is inserted while the
\* channel is subscribed, and pushes rows in the order of their insertion.
\* queue holds the ids of the rows pushed and not yet handed to on_event.
\* No call fails: connect, fetch, subscribe, the append to the event file and
\* dispatch return, and no channel error is reported.
GapUnit == [op |-> "channel", queue |-> << >>]

InitGap == DaemonInit /\ unit = GapUnit

\* positions of run() at which a row is inserted: as InsertPcs, and between
\* the end of _catch_up and the call of subscribe
GapInsertPcs == InsertPcs \cup {"subscribe"}

\* a webhook row is inserted; a subscribed channel pushes it
GapInsert(r, shape) ==
  /\ pc \in GapInsertPcs
  /\ Len(upstream) < MaxEvents
  /\ upstream' = Append(upstream, [repo |-> r, event_type |-> shape.event_type,
                                   action |-> shape.action,
                                   conclusion |-> shape.conclusion])
  /\ unit' = IF channel
               THEN [unit EXCEPT !.queue = Append(@, Len(upstream) + 1)]
               ELSE unit
  /\ KeepStatus
  /\ NoHandling
  /\ UNCHANGED <<syncCalls, supVars, client, channel, cuVars, lastCall, cuLast,
                 obsBackoff>>

\* on_event is called for the oldest pushed row and _handle_event returns
GapLiveDeliver ==
  /\ pc \in LivePcs
  /\ channel
  /\ unit.queue # << >>
  /\ LET id == Head(unit.queue) IN
       /\ IsDuplicate(id) \/ Len(event_file[upstream[id].repo]) < MaxFileLines
       /\ \E ch \in HandleChoices(id) :
            /\ HandleOutcome(id, ch[1], ch[2]) \in {"ok", "dup"}
            /\ HandleEvent(id, "live", ch[1], ch[2])
  /\ unit' = [unit EXCEPT !.queue = Tail(@)]
  /\ KeepStatus
  /\ UNCHANGED <<syncCalls, supVars, cloudVars, cuVars, lastCall, cuLast, obsBackoff>>

\* the body of the catch-up loop when _handle_event returns
GapCatchUpHandle ==
  /\ CatchUpHandle
  /\ lastOp'.outcome \in {"ok", "dup"}

\* the steps of run() when no call fails
GapRun ==
  \/ RunStart
  \/ LoopCheck(MaxCycles)
  \/ ConnectOk
  \/ CatchUpRepo
  \/ FetchReturn
  \/ GapCatchUpHandle
  \/ CatchUpNextRepo
  \/ CatchUpDone
  \/ SubscribeBegin
  \/ SubscribeReturn
  \/ AfterSubscribe
  \/ WaitReturn
  \/ FinallyEnter
  \/ CleanupReturn

NextGap ==
  \/ GapRun
  \/ RequestShutdown
  \/ OnSubscriptionStatus("SUBSCRIBED")
  \/ GapLiveDeliver
  \/ \E r \in Repos : \E shape \in EventShapes : GapInsert(r, shape)

\* run() is resumed after every awaited call, and the event loop calls
\* on_event for every pushed row
SpecGap ==
  InitGap /\ [][NextGap]_vars /\ WF_vars(GapRun) /\ WF_vars(GapLiveDeliver)

TypeOK ==
  /\ status \in DaemonStatus
  /\ backoff \in 1..MAX_BACKOFF
  /\ DOMAIN cursor \subseteq Repos
  /\ DOMAIN event_log \subseteq Ids


\* ===================================================================== claims
RECURSIVE Pow2(_)
Pow2(n) == IF n <= 0 THEN 1 ELSE 2 * Pow2(n - 1)

\* the cursor row of a repo holds this id
CursorIs(repo, id) ==
  get_cursor(repo) # << >> /\ get_cursor(repo)[1].last_event_id = id

\* C1: a step of the handling path that calls dispatch for an event starts in
\* a state where has_event is false for it, and has_event never turns false
\* again; so once has_event(N) has returned true no dispatch is made for N.
C1_NoDispatchAfterHasEvent ==
  [][ /\ (lastOp'.calls > 0 => ~has_event(lastOp'.id))
      /\ \A n \in Ids : has_event(n) => has_event(n)' ]_vars

\* an already-logged event is delivered again by the live callback and skipped
C1_Witness ==
  /\ lastOp.outcome = "dup"
  /\ lastOp.path = "live"
  /\ has_event(lastOp.id)

\* C2: over all catch-up and live deliveries, dispatch returns a result at
\* most once for every event id and every handler.
C2_DispatchAtMostOnce ==
  \A p \in DOMAIN dispatchReturns : dispatchReturns[p] <= 1

\* both handlers of an event have returned once, a later catch-up has fetched
\* the event again, and it was skipped
C2_Witness ==
  /\ lastOp.outcome = "dup"
  /\ lastOp.path = "catch_up"
  /\ dispatchReturns[<<lastOp.id, 1>>] = 1
  /\ dispatchReturns[<<lastOp.id, 2>>] = 1

\* C3: the stored last_event_id of a repo never decreases (and its row never
\* disappears).
C3_CursorNeverDecreases ==
  [][ \A r \in DOMAIN cursor : r \in DOMAIN cursor' /\ cursor'[r] >= cursor[r] ]_vars

\* C4: when the catch-up loop of a repo ends by an empty page and the last
\* event it fetched has id M, the repo's cursor is M.
C4_CatchUpEndsAtLastFetched ==
  (pc = "repo_done" /\ cuLast # 0) => CursorIs(repo_names[cu_i], cuLast)

\* C5: every event the catch-up loop of a repo passes to the handling path
\* belongs to that repo and has an id greater than every event the loop
\* passed before it, over all its pages.
C5_CatchUpAscending ==
  pc = "handling" =>
    /\ upstream[page[idx]].repo = repo_names[cu_i]
    /\ page[idx] > cuLast
    /\ page[idx] > after_id

\* the loop is about to pass a further event after an earlier one
C5_Witness ==
  /\ pc = "handling"
  /\ cuLast # 0
  /\ page[idx] > cuLast

\* C6: after a run of the handling path for a non-duplicate event in which no
\* dispatch raised, the cursor of the event's repo is the event's id.
C6_CursorAdvances ==
  (lastOp.id # 0 /\ lastOp.outcome \notin {"dup", "dispatch_error"})
    => CursorIs(upstream[lastOp.id].repo, lastOp.id)

\* C7 as stated: in the k-th of k consecutive cycles that lost the
\* subscription before subscribe() returned, the sleep lasts min(2^(k-1), 60).
C7_Original ==
  (pc = "sleep" /\ ~cycleClean) => backoff = Min(Pow2(lbrRun - 1), MAX_BACKOFF)

\* C7 amended: the k-th backoff sleep since run() started or the backoff was
\* last reset lasts min(2^(k-1), 60); the backoff is always within 1..60.
C7_BackoffSequence ==
  /\ backoff >= INITIAL_BACKOFF
  /\ backoff <= MAX_BACKOFF
  /\ pc = "sleep" => backoff = Min(Pow2(sleepsSinceReset), MAX_BACKOFF)

\* the eighth sleep in a row without a reset
C7_Witness ==
  /\ pc = "sleep"
  /\ sleepsSinceReset = 7
  /\ backoff = MAX_BACKOFF

\* C8 as stated: a sleep after a cleanly returned subscribe() lasts 1, any
\* other sleep lasts double the previous one; the backoff is reset only where
\* subscribe() has returned with connection_lost unset.
C8_Original ==
  /\ [](pc = "sleep" =>
          IF cycleClean THEN backoff = INITIAL_BACKOFF
          ELSE prevSleep # 0 => backoff = 2 * prevSleep)
  /\ [][ (backoff' = INITIAL_BACKOFF /\ backoff # INITIAL_BACKOFF)
           => (pc = "after_subscribe" /\ ~connection_lost) ]_vars

\* C8 amended: as stated, but the doubled sleep is capped at 60.
C8_ResetOnlyWhenClean ==
  /\ [](pc = "sleep" =>
          IF cycleClean THEN backoff = INITIAL_BACKOFF
          ELSE prevSleep # 0 => backoff = Min(2 * prevSleep, MAX_BACKOFF))
  /\ [][ (backoff' = INITIAL_BACKOFF /\ backoff # INITIAL_BACKOFF)
           => (pc = "after_subscribe" /\ ~connection_lost) ]_vars

\* a sleep after a subscription lost before subscribe() returned, following
\* a sleep of 2
C8_Witness ==
  /\ pc = "sleep"
  /\ ~cycleClean
  /\ prevSleep = 2
  /\ backoff = 4

ActiveStatuses == {"starting", "catching_up", "live", "reconnecting"}

\* the transitions the claim lists
ClaimedTransitions ==
  { <<"stopped", "starting">>, <<"starting", "catching_up">>,
    <<"catching_up", "live">>, <<"live", "reconnecting">>,
    <<"reconnecting", "catching_up">>, <<"live", "shutting_down">>,
    <<"shutting_down", "stopped">>, <<"error", "shutting_down">> }
  \cup { <<a, "error">> : a \in ActiveStatuses }

\* C9 as stated: the status starts as stopped and changes only along the
\* listed transitions.
C9_Original ==
  /\ status = "stopped"
  /\ [][ status' # status => <<status, status'>> \in ClaimedTransitions ]_vars

\* C9 amended: the listed transitions and reconnecting -> shutting_down.
C9_Transitions ==
  /\ status = "stopped"
  /\ [][ status' # status =>
           <<status, status'>> \in
             ClaimedTransitions \cup {<<"reconnecting", "shutting_down">>} ]_vars

\* shutdown requested during the reconnect path
C9_Witness ==
  /\ status = "shutting_down"
  /\ prevStatus = "reconnecting"

\* C10: when run() has returned or raised, the status is stopped and was
\* shutting_down just before, and the last of the connect()/disconnect()
\* calls was a disconnect().
C10_ExitPath ==
  pc = "done" =>
    /\ status = "stopped"
    /\ prevStatus = "shutting_down"
    /\ lastCall = "disconnect"

\* run() has raised after a reconnect
C10_Witness ==
  /\ pc = "done"
  /\ exc # "none"
  /\ cycles = 2

\* C11: an exception raised in a step of the cycle is caught by the except
\* clause, which sets the status to error before the finally block runs; the
\* exception in flight stays the same one until run() has raised it.
C11_ErrorThenCleanup ==
  /\ [](exc # "none" =>
          \/ pc = "except"
          \/ pc = "finally" /\ status = "error"
          \/ pc = "cleanup" /\ prevStatus = "error" /\ status = "shutting_down"
          \/ pc = "done" /\ status = "stopped")
  /\ [][ /\ (pc = "except" => (status' = "error" /\ pc' = "finally"))
         /\ (exc # "none" => exc' = exc)
         /\ ((exc = "none" /\ exc' # "none") => pc' = "except") ]_vars

\* the append to events.jsonl failed in catch-up; the cleanup runs after error
C11_Witness ==
  /\ pc = "cleanup"
  /\ exc = "OSError"
  /\ prevStatus = "error"

\* C12: once the shutdown event is set while run() executes, run() eventually
\* ends with status stopped, provided every awaited call completes.
C12_ShutdownTerminates ==
  shutdown_event ~> (pc = "done" /\ status = "stopped")

\* run() has returned after a shutdown that followed a backoff sleep
C12_Witness ==
  /\ pc = "done"
  /\ shutdown_event
  /\ exc = "none"
  /\ prevSleep # 0

\* C13: after a connection loss without shutdown the wait is left to status
\* reconnecting and disconnect(); then comes the sleep for the current
\* backoff, the capped doubling, and a new cycle that clears connection_lost
\* and connects; subscribe() is only reached from a catch-up that has
\* finished every repo, and only subscribe() creates a channel.
C13_ReconnectOrder ==
  [][ /\ ((pc = "wait" /\ pc' # "wait" /\ ~shutdown_event)
            => (status' = "reconnecting" /\ pc' = "disconnect"))
      /\ ((pc = "disconnect" /\ pc' # "disconnect")
            => (pc' = "sleep" /\ lastCall' = "disconnect" /\ ~channel'
                /\ backoff' = backoff))
      /\ ((pc = "sleep" /\ pc' # "sleep")
            => (pc' = "loop" /\ prevSleep' = backoff
                /\ backoff' = Min(2 * backoff, MAX_BACKOFF)))
      /\ ((pc = "loop" /\ pc' # "loop" /\ ~shutdown_event)
            => (pc' = "connect" /\ ~connection_lost'))
      /\ ((pc = "connect" /\ pc' # "connect")
            => \/ pc' = "catch_up" /\ status' = "catching_up" /\ cu_i' = 1
               \/ pc' = "except")
      /\ ((pc' = "subscribe" /\ pc # "subscribe")
            => (pc = "catch_up" /\ cu_i > Len(repo_names)))
      /\ ((channel' /\ ~channel) => pc = "subscribe") ]_vars

\* the catch-up of the cycle after the first backoff sleep has finished
C13_Witness ==
  /\ pc = "subscribe"
  /\ cycles = 2
  /\ prevSleep = INITIAL_BACKOFF
  /\ backoff = 2
  /\ ~channel

\* C14: a ConnectionError raised by the cloud client leads to the reconnect
\* path: run() neither goes to error nor ends with it.
C14_ConnectionErrorReconnects ==
  exc = "ConnectionError" => (status # "error" /\ pc # "done")

\* the handling of this event was started and no run of it has completed:
\* it was appended to its events.jsonl and its last matching handler has
\* never returned
Aborted(id) ==
  LET hs == Match(EventOf(id)) IN
    /\ hs # << >>
    /\ \E k \in 1..Len(event_file[upstream[id].repo]) :
         event_file[upstream[id].repo][k] = id
    /\ dispatchReturns[<<id, hs[Len(hs)]>>] = 0

\* C16: an event whose handling was aborted by a DispatchError stays to be
\* attempted again: it is not in the event log and the cursor of its repo is
\* below its id, so that the next catch-up fetches and dispatches it.
C16_AbortedEventRetried ==
  \A id \in 1..Len(upstream) :
    Aborted(id) =>
      /\ ~has_event(id)
      /\ (get_cursor(upstream[id].repo) # << >>
            => get_cursor(upstream[id].repo)[1].last_event_id < id)

\* C18: when the append to events.jsonl fails, the event is still matched,
\* every matching handler is dispatched, the cursor is advanced and no
\* exception leaves the handling path.
C18_FileWriteBestEffort ==
  lastOp.outcome = "file_error" =>
    /\ lastOp.calls = Len(Match(EventOf(lastOp.id)))
    /\ CursorIs(upstream[lastOp.id].repo, lastOp.id)
    /\ exc # "OSError"

\* C15: when an event-store operation raises while an event is handled, in
\* catch-up or in a live callback, the exception is in flight in run(), which
\* goes to error and cleans up.
C15_StoreErrorFatal ==
  lastOp.outcome = "store_error" => (pc = "except" /\ exc = "EventStoreError")

C19_StatusCallback ==
  [][ /\ \A s \in ChannelStatuses :
           OnSubscriptionStatus(s) =>
             /\ connection_lost' =
                  (connection_lost \/ s \in {"CHANNEL_ERROR", "TIMED_OUT"})
             /\ UNCHANGED <<shutdown_event, backoff, status>>
      /\ (connection_lost' /\ ~connection_lost) =>
           \E s \in {"CHANNEL_ERROR", "TIMED_OUT"} : OnSubscriptionStatus(s) ]_vars

\* the channel reported a loss before subscribe() returned
C19_Witness ==
  /\ connection_lost
  /\ pc = "subscribing"
  /\ status = "live"
  /\ ~shutdown_event

\* run_sync never subscribes, never sleeps for backoff, never starts a cycle,
\* and makes each of its calls at most once and in order
SyncNoLoop ==
  /\ ~channel
  /\ prevSleep = 0
  /\ cycles = 0
  /\ pc \notin {"loop", "connect", "subscribe", "subscribing", "after_subscribe",
                "wait", "disconnect", "sleep"}
  /\ syncCalls.connect <= 1
  /\ syncCalls.catch_up <= syncCalls.connect
  /\ syncCalls.disconnect <= syncCalls.catch_up

\* C20 as stated: when run_sync has ended it has called connect, _catch_up
\* and disconnect once each, in this order, and nothing else; an exception
\* of the catch-up propagates.
C20_Original ==
  /\ [](/\ SyncNoLoop
        /\ pc = "done" =>
             /\ syncCalls = [connect |-> 1, catch_up |-> 1, disconnect |-> 1]
             /\ lastCall = "disconnect")
  /\ [][exc # "none" => exc' = exc]_vars

\* C20 amended: as stated when connect() returns; when connect() raises,
\* neither _catch_up nor disconnect is called and the ConnectionError
\* propagates.
C20_RunSyncOnce ==
  /\ [](/\ SyncNoLoop
        /\ pc = "done" =>
             IF client
               THEN /\ syncCalls = [connect |-> 1, catch_up |-> 1, disconnect |-> 1]
                    /\ lastCall = "disconnect"
                    /\ status = "stopped"
               ELSE /\ syncCalls = [connect |-> 1, catch_up |-> 0, disconnect |-> 0]
                    /\ exc = "ConnectionError")
  /\ [][exc # "none" => exc' = exc]_vars

\* run_sync has raised the DispatchError of its catch-up after disconnect()
C20_Witness ==
  /\ pc = "done"
  /\ exc = "DispatchError"
  /\ syncCalls.disconnect = 1
  /\ lastCall = "disconnect"

\* C21: a log_event for an event id that is already in the event log returns
\* normally and leaves the event log (and the cursor table) as it was,
\* whatever result it is given; has_event stays true.
C21_LogEventIdempotent ==
  [][ (unit'.op = "log_event" /\ unit'.arg \in DOMAIN event_log) =>
        /\ event_log' = event_log
        /\ cursor' = cursor
        /\ unit'.arg \in DOMAIN event_log' ]_vars

\* a second log_event for an id was given another handler's result
C21_Witness ==
  /\ unit.op = "log_event"
  /\ has_event(unit.arg)
  /\ event_log[unit.arg].handler_name # unit.ret

\* C22: get_cursor returns the value of the last set_cursor that returned
\* for the repo, and none for a repo never set, also when the store was
\* closed and opened again in between.
C22_CursorSurvivesReopen ==
  unit.op = "get_cursor" =>
    unit.ret = IF unit.arg \in DOMAIN unit.lastSet
                 THEN <<[repo |-> unit.arg, last_event_id |-> unit.lastSet[unit.arg]]>>
                 ELSE << >>

\* a cursor is read back after set_cursor and close
C22_Witness ==
  /\ unit.op = "get_cursor"
  /\ unit.arg \in unit.closedSince
  /\ unit.ret # << >>
  /\ unit.ret[1].last_event_id = 2

\* a filter is true of an event: the resolved field equals the value for ==,
\* differs from it for !=
FilterTrue(f, event) ==
  \/ f.op = "==" /\ ResolveField(f.field, event) = f.value
  \/ f.op = "!=" /\ ResolveField(f.field, event) # f.value

\* C23: match returns the indices, in increasing (registration) order and
\* each once, of exactly the handlers that are enabled, have the event's
\* event_type and action, and all of whose filters are true.
C23_MatchExact ==
  (unit.op = "match" /\ unit.done) =>
    LET r == unit.ret
        e == unit.event
    IN /\ \A i \in 1..Len(r) : \A j \in 1..Len(r) : i < j => r[i] < r[j]
       /\ {r[i] : i \in 1..Len(r)} =
            { k \in 1..Len(RegistryHandlers) :
                /\ RegistryHandlers[k].enabled
                /\ RegistryHandlers[k].event_type = e.event_type
                /\ RegistryHandlers[k].action = e.action
                /\ \A n \in 1..Len(RegistryHandlers[k].filters) :
                     FilterTrue(RegistryHandlers[k].filters[n], e) }

\* a failed check run of r2 matches h1, h2, h5 and h8
C23_Witness ==
  /\ unit.op = "match"
  /\ unit.done
  /\ unit.event.repo = "r2"
  /\ unit.ret = <<1, 2, 5, 8>>

\* C24: once the command line is resolved, dispatch returns success for exit
\* code 0, failure carrying the exit code for any other exit code, timeout
\* without an exit code when the timeout expires, and raises DispatchError
\* for any other failure to execute; the result names the handler.
C24_DispatchOutcome ==
  (unit.op = "dispatch" /\ unit.done /\ unit.template = "ok") =>
    /\ unit.ret.handler_name = unit.handler
    /\ (unit.proc.kind = "exit" /\ unit.proc.code = 0) =>
         (unit.ret.kind = "result" /\ unit.ret.status = "success")
    /\ (unit.proc.kind = "exit" /\ unit.proc.code # 0) =>
         /\ unit.ret.kind = "result"
         /\ unit.ret.status = "failure"
         /\ unit.ret.exit_code = <<unit.proc.code>>
    /\ unit.proc.kind = "timeout" =>
         /\ unit.ret.kind = "result"
         /\ unit.ret.status = "timeout"
         /\ unit.ret.exit_code = << >>
    /\ unit.proc.kind = "oserror" =>
         (unit.ret.kind = "raise" /\ unit.ret.status = "DispatchError")

\* a command killed by a signal has been reported as a failure with its code
C24_Witness ==
  /\ unit.op = "dispatch"
  /\ unit.done
  /\ unit.template = "ok"
  /\ unit.proc = [kind |-> "exit", code |-> 0 - 9]
  /\ unit.ret.status = "failure"
  /\ unit.ret.exit_code = <<0 - 9>>

C26_PreconditionsEnforced ==
  [][ ( \/ unit'.op \in {"fetch", "subscribe"} /\ ~unit.connected
        \/ unit'.op = "connect" /\ unit.connected )
      => unit'.ret = "ConnectionError" ]_vars

\* C27: catch-up takes the repos in the order of repo_names; the first fetch
\* of a repo asks for the ids above the stored cursor (above 0 without one),
\* a fetch after a page asks for the ids above the page's last id, a page
\* holds at most FetchLimit rows (the code's limit of 100), the lowest ones
\* of the repo above after_id, and the repo is left exactly when a page is
\* empty.
C27_CatchUpPaging ==
  [][ /\ (pc # "catch_up" /\ pc # "repo_done" /\ pc' = "catch_up") => cu_i' = 1
      /\ (pc = "repo_done" /\ pc' = "catch_up") => cu_i' = cu_i + 1
      /\ (pc = "catch_up" /\ pc' = "fetch") =>
           /\ cu_i' = cu_i
           /\ after_id' = IF repo_names[cu_i] \in DOMAIN cursor
                            THEN cursor[repo_names[cu_i]] ELSE 0
      /\ (pc = "handling" /\ pc' = "fetch") =>
           (cu_i' = cu_i /\ after_id' = page[Len(page)])
      /\ (pc = "fetch" /\ pc' \in {"handling", "repo_done"}) =>
           /\ cu_i' = cu_i
           /\ Len(page') <= FetchLimit
           /\ \A k \in 1..Len(page') :
                /\ upstream[page'[k]].repo = repo_names[cu_i]
                /\ page'[k] > after_id
                /\ k > 1 => page'[k] > page'[k - 1]
           /\ \A i \in 1..Len(upstream) :
                ( /\ upstream[i].repo = repo_names[cu_i]
                  /\ i > after_id
                  /\ \A k \in 1..Len(page') : page'[k] # i )
                => (Len(page') = FetchLimit /\ i > page'[Len(page')])
           /\ pc' = "repo_done" <=> page' = << >> ]_vars

\* the second repo is fetched again, above the id of the event of its first
\* page, in a cycle that found a cursor of the first repo
C27_Witness ==
  /\ pc = "fetch"
  /\ cu_i = 2
  /\ cuLast = 2
  /\ after_id = 2
  /\ CursorIs("r1", 1)

Handled(id) ==
  /\ id <= Len(upstream)
  /\ \E k \in 1..Len(event_file[upstream[id].repo]) :
       event_file[upstream[id].repo][k] = id

\* C28: when no call fails and the channel pushes rows in insertion order,
\* every upstream row of a watched repo is eventually handled, unless a
\* shutdown is requested.
C28_EveryEventHandled ==
  \A id \in Ids :
    (id <= Len(upstream)) ~> (Handled(id) \/ shutdown_event \/ pc = "done")

\* C29: the cursor of a repo is never above the id of a row of the repo that
\* was not handled.
C29_CursorBehindHandled ==
  \A id \in 1..Len(upstream) :
    ( /\ upstream[id].repo \in DOMAIN cursor
      /\ id <= cursor[upstream[id].repo] )
    => Handled(id)

\* the positions of run() inside _catch_up
CatchUpPcs == {"catch_up", "fetch", "handling", "repo_done"}

\* C31: a catch-up that has started is eventually left, when every awaited
\* call completes; each fetch that follows a page asks for ids above a
\* strictly higher after_id than the fetch before, whether the events of the
\* page were handled or skipped as duplicates.
C31_CatchUpTerminates ==
  /\ (pc \in CatchUpPcs) ~> (pc \notin CatchUpPcs)
  /\ [][ (pc = "handling" /\ pc' = "fetch") => after_id' > after_id ]_vars

\* the catch-up of a second cycle skipped a duplicate and fetches again
C31_Witness ==
  /\ pc = "fetch"
  /\ cycles = 2
  /\ lastOp.path = "catch_up"
  /\ lastOp.outcome = "dup"
  /\ after_id = lastOp.id

\* the positions of run() from the finally block on
ExitPcs == {"finally", "cleanup", "done"}

\* C32: when the wait ends with the shutdown event set, with or without the
\* connection-lost event, run() goes to its finally block with the status
\* unchanged, not to reconnecting; from there on it only runs the cleanup:
\* no backoff sleep, no new cycle and no connect().
C32_ShutdownPrecedence ==
  /\ [][ (pc = "wait" /\ pc' # "wait" /\ shutdown_event) =>
            /\ pc' = "finally"
            /\ status' = status
            /\ status' # "reconnecting"
            /\ backoff' = backoff
            /\ cycles' = cycles ]_vars
  /\ [][ (pc \in ExitPcs) =>
            /\ pc' \in ExitPcs
            /\ status' # "reconnecting"
            /\ backoff' = backoff
            /\ cycles' = cycles
            /\ (lastCall' = lastCall \/ lastCall' = "disconnect") ]_vars

\* the wait ended with both events set and run() is in its finally block
C32_Witness ==
  /\ pc = "finally"
  /\ shutdown_event
  /\ connection_lost
  /\ exc = "none"
  /\ status = "live"

\* the positions of run() from the call of subscribe() to the end of the wait
SubscribedPcs == {"subscribe", "subscribing", "after_subscribe", "wait"}

\* C33 as stated: with the shutdown event set, neither connect() nor
\* subscribe() is called.
C33_Original ==
  [][ shutdown_event =>
        /\ (pc' = "connect" => pc = "connect")
        /\ (pc' = "subscribe" => pc = "subscribe") ]_vars

\* C33: with the shutdown event set, connect() is not called and no cycle is
\* started; subscribe() is called only by the cycle in progress, at the end
\* of its catch-up, and once it has been called run() returns neither to a
\* catch-up nor to a connect, a disconnect of the reconnect path or a sleep.
C33_NoConnectAfterShutdown ==
  [][ shutdown_event =>
        /\ (pc' = "connect" => pc = "connect")
        /\ cycles' = cycles
        /\ ((pc' = "subscribe" /\ pc # "subscribe") =>
              (pc = "catch_up" /\ cu_i > Len(repo_names)))
        /\ (pc \in SubscribedPcs =>
              pc' \in SubscribedPcs \cup ExitPcs \cup {"except"}) ]_vars

\* subscribe() is being called although the shutdown event is set
C33_Witness ==
  /\ shutdown_event
  /\ pc = "subscribe"
  /\ exc = "none"

\* C34: a run of the handling path for an event that has_event reports as
\* logged is a skip: it calls no dispatch and leaves the cursor table, the
\* event log and the event files as they were.
C34_DuplicateChangesNothing ==
  [][ (lastOp'.id # 0 /\ has_event(lastOp'.id)) =>
        /\ lastOp'.outcome = "dup"
        /\ lastOp'.calls = 0
        /\ lastOp'.results = << >>
        /\ dispatchReturns' = dispatchReturns
        /\ cursor' = cursor
        /\ event_log' = event_log
        /\ event_file' = event_file ]_vars

\* a duplicate above its repo's cursor was skipped and the cursor stayed
C34_Witness ==
  /\ lastOp.outcome = "dup"
  /\ lastOp.calls = 0
  /\ has_event(lastOp.id)
  /\ upstream[lastOp.id].repo \in DOMAIN cursor
  /\ cursor[upstream[lastOp.id].repo] < lastOp.id

\* C35: every logged event has a matching handler and its one log entry
\* names the first of them in registration order; a run of the handling path
\* in which a dispatch returned leaves the event logged with the status of
\* the first result, whatever the later handlers returned.
C35_FirstHandlerLogged ==
  /\ [](\A id \in DOMAIN event_log :
          /\ id \in 1..Len(upstream)
          /\ Match(EventOf(id)) # << >>
          /\ event_log[id].handler_name = Handlers[Match(EventOf(id))[1]].name)
  /\ [][ (lastOp'.id # 0 /\ lastOp'.results # << >>) =>
            /\ ~has_event(lastOp'.id)
            /\ lastOp'.id \in DOMAIN event_log'
            /\ event_log'[lastOp'.id].handler_result = lastOp'.results[1]
            /\ \A n \in DOMAIN event_log :
                 n \in DOMAIN event_log' /\ event_log'[n] = event_log[n] ]_vars

\* two handlers returned different statuses and the log has the first one
C35_Witness ==
  /\ lastOp.outcome = "ok"
  /\ Len(lastOp.results) = 2
  /\ lastOp.results[1] # lastOp.results[2]
  /\ has_event(lastOp.id)
  /\ event_log[lastOp.id].handler_name = "h1"
  /\ event_log[lastOp.id].handler_result = lastOp.results[1]

\* C36: no event file holds the same event id on two lines.
C36_EventFileOncePerId ==
  \A r \in Repos :
    \A i \in 1..Len(event_file[r]) : \A j \in 1..Len(event_file[r]) :
      i # j => event_file[r][i] # event_file[r][j]

\* the handling path ran, in this step, for an event that is not logged and
\* that no handler matches
NoMatchRun ==
  /\ lastOp'.id # 0
  /\ ~has_event(lastOp'.id)
  /\ Match(EventOf(lastOp'.id)) = << >>

C38_TemplateErrorResult ==
  (unit.op = "dispatch" /\ unit.done /\ unit.template = "raise") =>
    /\ unit.ret.kind = "result"
    /\ unit.ret.handler_name = unit.handler
    /\ unit.ret.status = "error"
    /\ unit.ret.output = "template"
    /\ unit.ret.exit_code = << >>
    /\ unit.ret.duration = "set"

\* C39: the first call run() makes on the cloud client's connection is a
\* connect(), and a connect() comes to its end only when no call was made
\* before it or the call before it was a disconnect(): two connect() calls
\* always have a disconnect() between them, while a disconnect() may follow
\* a disconnect().
C39_ConnectDisconnectAlternate ==
  [][ /\ ((lastCall = "none" /\ lastCall' # "none") => lastCall' = "connect")
      /\ ((pc = "connect" /\ pc' # "connect") =>
            /\ lastCall \in {"none", "disconnect"}
            /\ lastCall' = "connect")
      /\ ((lastCall' = "connect" /\ lastCall # "connect") => pc = "connect")
      /\ ((pc' = "connect" /\ pc # "connect") =>
            lastCall \in {"none", "disconnect"}) ]_vars

\* the cycle after a reconnect has connected again
C39_Witness ==
  /\ lastCall = "connect"
  /\ cycles = 2
  /\ pc = "fetch"
  /\ prevSleep # 0

\* C40: a run of the handling path for an event of one repo leaves the
\* cursor row of every other repo as it was, present or absent; no other
\* step changes a cursor; and the catch-up of a repo starts above that repo's
\* own cursor.
C40_CursorsPerRepo ==
  [][ /\ lastOp'.id = 0 => cursor' = cursor
      /\ lastOp'.id # 0 =>
           \A r \in Repos \ {upstream[lastOp'.id].repo} :
             /\ r \in DOMAIN cursor' <=> r \in DOMAIN cursor
             /\ r \in DOMAIN cursor => cursor'[r] = cursor[r]
      /\ (pc = "catch_up" /\ pc' = "fetch") =>
           after_id' = IF repo_names[cu_i] \in DOMAIN cursor
                         THEN cursor[repo_names[cu_i]] ELSE 0 ]_vars

\* an event of r2 was handled while r1 has a cursor of its own
C40_Witness ==
  /\ lastOp.id = 1
  /\ lastOp.outcome = "ok"
  /\ upstream[1].repo = "r2"
  /\ CursorIs("r2", 1)
  /\ CursorIs("r1", 2)

====
